---- MODULE Spec2Model ----
(***************************************************************************)
(* Model of fastmcp_server.py: the in-memory job table JOBS, the tools     *)
(* download_video, download_playlist, get_download_status,                 *)
(* cancel_download and list_downloads, the asyncio task running            *)
(* _run_yt_dlp_job for each job, and the executor thread in which yt-dlp   *)
(* runs and calls progress_hook.                                           *)
(*                                                                         *)
(* The tools are coroutines without an await: each runs to completion on   *)
(* the event loop and is one action.  _run_yt_dlp_job has one suspension   *)
(* point (the await of run_in_executor), so it is two steps: the start up  *)
(* to the await and the resumption after it.  The executor thread runs     *)
(* concurrently with the event loop.                                       *)
(***************************************************************************)
EXTENDS Integers, Sequences, FiniteSets, TLC

\* ------------------------------------------------------------------ bounds

\* Jobs ever submitted in one run of the server.
MaxJobs == 2

\* Largest byte count yt-dlp reports in a progress sample.
MaxBytes == 1

\* Largest byte count in the samples of the one-job specification HookSpec.
MaxSampleBytes == 2

\* ------------------------------------------------------------- Python values

\* None in a string- or path-valued field.
None == "None"

\* None in an integer-valued field (progress.total_bytes, the task handle).
NoneInt == 0 - 1

\* An exception is its type and its message.  No exception:
NoException == [type |-> None, msg |-> ""]

\* asyncio throws this into a cancelled task.
CancelledError == [type |-> "asyncio.CancelledError", msg |-> ""]

\* os.makedirs raises this.
OSError == [type |-> "OSError", msg |-> "Permission denied"]

\* ------------------------------------------------------------------ inputs

\* The file system the server runs on.  A path is the sequence of its
\* components; <<>> is the working directory.
ExistingDirs == {<<>>, <<"/">>, <<"/", "ro">>}
ReadOnlyDirs == {<<"/">>, <<"/", "ro">>}

\* download_path arguments: a directory that can be created, an existing
\* directory without write permission, a directory that cannot be created.
DOWNLOADS == <<"downloads">>
READ_ONLY == <<"/", "ro">>
NO_SUCH == <<"/", "ro", "new">>

\* url arguments: the empty string and a video address.
NO_URL == ""
SAMPLE_URL == "https://www.youtube.com/watch?v=2Vv-BfVoq4g"

\* The calls of download_video and of download_playlist.
VIDEO_REQUESTS ==
    {[url |-> NO_URL, download_path |-> DOWNLOADS],
     [url |-> SAMPLE_URL, download_path |-> DOWNLOADS],
     [url |-> SAMPLE_URL, download_path |-> NO_SUCH]}
PLAYLIST_REQUESTS ==
    {[url |-> SAMPLE_URL, download_path |-> DOWNLOADS],
     [url |-> SAMPLE_URL, download_path |-> READ_ONLY],
     [url |-> NO_URL, download_path |-> NO_SUCH]}

\* Messages of the failures yt-dlp raises by itself.
FETCH_ERRORS == {"network unreachable"}

\* job_id arguments of get_download_status and cancel_download: every id
\* that can be allocated and one that never is.
JOB_IDS == 1..(MaxJobs + 1)

\* The dicts yt-dlp passes to a progress hook.  A missing key is a field
\* the record does not have.
BYTES == 0..MaxBytes
SAMPLES ==
    {[status |-> "finished"], [status |-> "downloading", total_bytes |-> MaxBytes]}
    \cup {[status |-> "downloading", downloaded_bytes |-> b, total_bytes |-> MaxBytes] :
            b \in BYTES}

\* A dict with key k when v is not None, and empty when it is.
Item(k, v) == IF v = NoneInt THEN <<>> ELSE (k :> v)

\* Every dict yt-dlp can pass to a progress hook with byte counts up to
\* MaxSampleBytes: each of downloaded_bytes, total_bytes and
\* total_bytes_estimate is there or missing, the total may be smaller than
\* the bytes downloaded, and the status may be one the hook does not handle.
SAMPLE_BYTES == {NoneInt} \cup (0..MaxSampleBytes)
HOOK_SAMPLES ==
    {[status |-> "finished"], [status |-> "error"]}
    \cup {[status |-> "downloading"] @@ Item("downloaded_bytes", b)
            @@ Item("total_bytes", t) @@ Item("total_bytes_estimate", e) :
            b \in SAMPLE_BYTES, t \in SAMPLE_BYTES, e \in SAMPLE_BYTES}

VARIABLES
    JOBS,       \* job_id -> job dict (without its progress dict's content)
    PROGRESS,   \* the progress dict objects: job['progress'] is PROGRESS[job.progress]
    TASKS,      \* the asyncio.Task objects: job['task'] is TASKS[job.task]
    THREADS,    \* the executor thread running blocking() for a job
    returned,   \* the value the last tool call returned, held by its caller
    CancelledErrorIsException
                \* whether asyncio.CancelledError derives from Exception
                \* (Python 3.7) or only from BaseException (3.8 and later)

vars == <<JOBS, PROGRESS, TASKS, THREADS, returned, CancelledErrorIsException>>

\* ------------------------------------------------------------ os and os.path

\* os.makedirs(path, exist_ok=True) succeeds.
RECURSIVE MakedirsOK(_)
MakedirsOK(path) ==
    IF path \in ExistingDirs THEN TRUE
    ELSE LET parent == SubSeq(path, 1, Len(path) - 1)
         IN MakedirsOK(parent) /\ parent \notin ReadOnlyDirs

\* os.path.join(a, *parts)
Join(a, parts) == a \o parts

\* os.path.dirname(path)
Dirname(path) == SubSeq(path, 1, Len(path) - 1)

\* os.path.abspath(path): a relative path is put under the working directory.
Abspath(path) == IF Len(path) > 0 /\ path[1] = "/" THEN path ELSE <<"/", "cwd">> \o path

\* ------------------------------------------------------------------ jobs

\* str(uuid.uuid4()): an id no job has.
NewJobId == Cardinality(DOMAIN JOBS) + 1

_make_job_entry(url, download_path) ==
    [job_id           |-> NewJobId,
     url              |-> url,
     status           |-> "pending",
     progress         |-> NewJobId,
     error_message    |-> None,
     output_path      |-> None,
     cancel_requested |-> FALSE,
     task             |-> NoneInt]

NewProgress == [percent |-> 0, downloaded_bytes |-> 0, total_bytes |-> NoneInt]

\* {k: v for k, v in job.items() if k != 'task'}: the values are not copied,
\* so the copy's progress is the job's own progress dict.
Copy(job) ==
    [job_id           |-> job.job_id,
     url              |-> job.url,
     status           |-> job.status,
     progress         |-> job.progress,
     error_message    |-> job.error_message,
     output_path      |-> job.output_path,
     cancel_requested |-> job.cancel_requested]

Init ==
    /\ JOBS = <<>>
    /\ PROGRESS = <<>>
    /\ TASKS = <<>>
    /\ THREADS = <<>>
    /\ returned = [tool |-> "none"]
    /\ CancelledErrorIsException \in BOOLEAN

\* ------------------------------------------------------------------ submit

VIDEO_TEMPLATE == <<"%(title)s - %(id)s.%(ext)s">>
PLAYLIST_TEMPLATE == <<"%(playlist)s", "%(playlist_index)s - %(title)s - %(id)s.%(ext)s">>

\* The body shared by download_video and download_playlist: the job is put
\* into JOBS before os.makedirs runs, and the task is created after it.
Submit(tool, url, download_path, template) ==
    /\ Cardinality(DOMAIN JOBS) < MaxJobs
    /\ LET job == _make_job_entry(url, download_path)
           job_id == job.job_id
           outtmpl == Join(download_path, template)
       IN /\ PROGRESS' = PROGRESS @@ (job_id :> NewProgress)
          /\ IF MakedirsOK(download_path)
             THEN /\ JOBS' = JOBS @@ (job_id :> [job EXCEPT !.task = job_id])
                  /\ TASKS' = TASKS @@ (job_id :>
                        [pc |-> "scheduled", must_cancel |-> FALSE, outtmpl |-> outtmpl,
                         exception |-> NoException])
                  /\ returned' = [tool |-> tool, value |-> [job_id |-> job_id]]
             ELSE /\ JOBS' = JOBS @@ (job_id :> job)
                  /\ TASKS' = TASKS
                  /\ returned' = [tool |-> tool, raised |-> OSError]
    /\ UNCHANGED <<THREADS, CancelledErrorIsException>>

download_video(url, download_path) ==
    Submit("download_video", url, download_path, VIDEO_TEMPLATE)

download_playlist(url, download_path) ==
    Submit("download_playlist", url, download_path, PLAYLIST_TEMPLATE)

\* --------------------------------------------------------- progress_hook

\* d.get(key): None when the key is missing.
Get(d, key) == IF key \in DOMAIN d THEN d[key] ELSE NoneInt

\* bool(v) of an integer or None.
Truthy(v) == v # NoneInt /\ v # 0

\* round(downloaded / total * 100, 2), in hundredths of a percent; a tie
\* goes to the even neighbour.
Round2(downloaded, total) ==
    LET n == downloaded * 10000
        q == n \div total
        r == n % total
    IN IF 2 * r > total \/ (2 * r = total /\ q % 2 = 1) THEN q + 1 ELSE q

\* The try block without the branch for a 'finished' sample.
UpdateProgress_without_finished(progress, d) ==
    IF d.status = "downloading"
    THEN LET total == IF Truthy(Get(d, "total_bytes")) THEN Get(d, "total_bytes")
                      ELSE Get(d, "total_bytes_estimate")
             downloaded == IF "downloaded_bytes" \in DOMAIN d THEN d.downloaded_bytes ELSE 0
         IN IF Truthy(total) /\ Get(d, "downloaded_bytes") = NoneInt
            THEN progress
            ELSE [percent          |-> IF Truthy(total) THEN Round2(downloaded, total) ELSE 0,
                  downloaded_bytes |-> downloaded,
                  total_bytes      |-> total]
    ELSE progress

\* The try block of progress_hook: the progress dict after the hook has seen
\* sample d.  The division raises TypeError when downloaded_bytes is missing;
\* the except clause swallows it and the dict keeps its values.
UpdateProgress(progress, d) ==
    IF d.status = "downloading"
    THEN LET total == IF Truthy(Get(d, "total_bytes")) THEN Get(d, "total_bytes")
                      ELSE Get(d, "total_bytes_estimate")
             downloaded == IF "downloaded_bytes" \in DOMAIN d THEN d.downloaded_bytes ELSE 0
         IN IF Truthy(total) /\ Get(d, "downloaded_bytes") = NoneInt
            THEN progress
            ELSE [percent          |-> IF Truthy(total) THEN Round2(downloaded, total) ELSE 0,
                  downloaded_bytes |-> downloaded,
                  total_bytes      |-> total]
    ELSE IF d.status = "finished"
    THEN [progress EXCEPT !.percent = 10000]
    ELSE progress

\* progress_hook without the cooperative cancellation after the try block.
HookRaises_never(job) == NoException

\* The exception progress_hook raises after the try block, if any.
HookRaises(job) ==
    IF job.cancel_requested
    THEN [type |-> "yt_dlp.utils.DownloadError", msg |-> "Cancelled by user"]
    ELSE NoException

\* One call of progress_hook by yt-dlp, in the executor thread.  An exception
\* raised by the hook ends ydl.download with that exception.
progress_hook(j, d) ==
    /\ j \in DOMAIN THREADS
    /\ THREADS[j].state = "running"
    /\ PROGRESS' = [PROGRESS EXCEPT ![JOBS[j].progress] = UpdateProgress(@, d)]
    /\ THREADS' = [THREADS EXCEPT ![j] =
            IF HookRaises(JOBS[j]) = NoException
            THEN [@ EXCEPT !.callbacks = TRUE]
            ELSE [@ EXCEPT !.state = "raised", !.exc = HookRaises(JOBS[j])]]
    /\ UNCHANGED <<JOBS, TASKS, returned, CancelledErrorIsException>>

\* ydl.download returns in the executor thread.
blocking_returns(j) ==
    /\ j \in DOMAIN THREADS
    /\ THREADS[j].state = "running"
    /\ THREADS' = [THREADS EXCEPT ![j].state = "returned"]
    /\ UNCHANGED <<JOBS, PROGRESS, TASKS, returned, CancelledErrorIsException>>

\* ydl.download raises a failure of its own in the executor thread.
blocking_raises(j, msg) ==
    /\ j \in DOMAIN THREADS
    /\ THREADS[j].state = "running"
    /\ THREADS' = [THREADS EXCEPT ![j].state = "raised",
                                  ![j].exc = [type |-> "yt_dlp.utils.DownloadError", msg |-> msg]]
    /\ UNCHANGED <<JOBS, PROGRESS, TASKS, returned, CancelledErrorIsException>>

\* --------------------------------------------------------- _run_yt_dlp_job

\* str(e) in the place of the formatted exception.
FormatExceptionOnly_str(e) == e.msg

\* ''.join(traceback.format_exception_only(type(e), e)).strip()
FormatExceptionOnly(e) == IF e.msg = "" THEN e.type ELSE e.type \o ": " \o e.msg

\* Whether the clause "except Exception as e" catches e.
ExceptException(e) == e.type # CancelledError.type \/ CancelledErrorIsException

\* The except clause without the test of cancel_requested.
OnException_always_error(job, e) ==
    [job EXCEPT !.status = "error", !.error_message = FormatExceptionOnly(e)]

\* The except clause recording cancelled for every exception.
OnException_always_cancelled(job, e) ==
    [job EXCEPT !.status = "cancelled", !.error_message = "Cancelled by user"]

\* The except clause of _run_yt_dlp_job: the job after exception e was caught.
OnException(job, e) ==
    IF job.cancel_requested
    THEN [job EXCEPT !.status = "cancelled", !.error_message = "Cancelled by user"]
    ELSE [job EXCEPT !.status = "error", !.error_message = FormatExceptionOnly(e)]

\* The statements after the await, with error_message set to ''.
OnReturn_with_message(job, outtmpl) ==
    [job EXCEPT !.status = "completed",
                !.error_message = "",
                !.output_path = IF Len(outtmpl) > 0 THEN Abspath(outtmpl) ELSE @]

\* The statements after the await: the job after blocking() returned normally.
OnReturn(job, outtmpl) ==
    [job EXCEPT !.status = "completed",
                !.output_path = IF Len(outtmpl) > 0 THEN Abspath(outtmpl) ELSE @]

\* The first step of the task: the coroutine runs up to the await of
\* run_in_executor.  The os.makedirs of the template's directory comes before
\* the try block: its OSError ends the task and leaves the job as it is.
run_start(j) ==
    /\ j \in DOMAIN TASKS
    /\ TASKS[j].pc = "scheduled"
    /\ ~TASKS[j].must_cancel
    /\ LET outtmpl == TASKS[j].outtmpl
           parent == Dirname(outtmpl)
       IN IF Len(outtmpl) > 0 /\ Len(parent) > 0 /\ ~MakedirsOK(parent)
          THEN /\ TASKS' = [TASKS EXCEPT ![j].pc = "done", ![j].exception = OSError]
               /\ UNCHANGED <<JOBS, THREADS>>
          ELSE /\ JOBS' = [JOBS EXCEPT ![j].status = "downloading"]
               /\ THREADS' = THREADS @@ (j :>
                     [state |-> "running", exc |-> NoException, callbacks |-> FALSE])
               /\ TASKS' = [TASKS EXCEPT ![j].pc = "awaiting"]
    /\ UNCHANGED <<PROGRESS, returned, CancelledErrorIsException>>

\* A task cancelled before its first step: asyncio throws CancelledError into
\* the coroutine before any of its statements has run.
run_never_started(j) ==
    /\ j \in DOMAIN TASKS
    /\ TASKS[j].pc = "scheduled"
    /\ TASKS[j].must_cancel
    /\ TASKS' = [TASKS EXCEPT ![j].pc = "done", ![j].must_cancel = FALSE,
                              ![j].exception = CancelledError]
    /\ UNCHANGED <<JOBS, PROGRESS, THREADS, returned, CancelledErrorIsException>>

\* The task resumes at the await: with CancelledError when it was cancelled
\* (the thread keeps running), else with what blocking() returned or raised.
run_resume(j) ==
    /\ j \in DOMAIN TASKS
    /\ TASKS[j].pc = "awaiting"
    /\ TASKS[j].must_cancel \/ THREADS[j].state # "running"
    /\ LET e == IF TASKS[j].must_cancel THEN CancelledError ELSE THREADS[j].exc
       IN /\ JOBS' = [JOBS EXCEPT ![j] =
                        IF e = NoException THEN OnReturn(@, TASKS[j].outtmpl)
                        ELSE IF ExceptException(e) THEN OnException(@, e)
                        ELSE @]
          /\ TASKS' = [TASKS EXCEPT ![j].pc = "done", ![j].must_cancel = FALSE,
                                    ![j].exception =
                                        IF ExceptException(e) THEN NoException ELSE e]
    /\ UNCHANGED <<PROGRESS, THREADS, returned, CancelledErrorIsException>>

\* ------------------------------------------------------------------ tools

NotFound(job_id) == [error |-> "job_id not found", job_id |-> job_id]

\* get_download_status looking the job up with JOBS[job_id]: a KeyError for
\* an unknown id.
get_download_status_subscript(job_id) ==
    /\ returned' = IF job_id \notin DOMAIN JOBS
                   THEN [tool |-> "get_download_status",
                         raised |-> [type |-> "KeyError", msg |-> "job_id"]]
                   ELSE [tool |-> "get_download_status", value |-> Copy(JOBS[job_id])]
    /\ UNCHANGED <<JOBS, PROGRESS, TASKS, THREADS, CancelledErrorIsException>>

get_download_status(job_id) ==
    /\ returned' = [tool |-> "get_download_status",
                    value |-> IF job_id \notin DOMAIN JOBS THEN NotFound(job_id)
                              ELSE Copy(JOBS[job_id])]
    /\ UNCHANGED <<JOBS, PROGRESS, TASKS, THREADS, CancelledErrorIsException>>

list_downloads ==
    /\ returned' = [tool |-> "list_downloads",
                    value |-> [i \in 1..Cardinality(DOMAIN JOBS) |-> Copy(JOBS[i])]]
    /\ UNCHANGED <<JOBS, PROGRESS, TASKS, THREADS, CancelledErrorIsException>>

\* The test without 'error'.
AlreadyFinished_without_error(job) == job.status \in {"completed", "cancelled"}

\* The test with 'cancel_requested' added.
AlreadyFinished_with_cancel_requested(job) ==
    job.status \in {"completed", "error", "cancelled", "cancel_requested"}

\* job['status'] in ('completed', 'error', 'cancelled')
AlreadyFinished(job) == job.status \in {"completed", "error", "cancelled"}

\* cancel_download without the call of task.cancel().
TaskPending_never(job) == FALSE

\* task and not task.done()
TaskPending(job) == job.task # NoneInt /\ TASKS[job.task].pc # "done"

\* cancel_download setting the flag before it tests the status.
cancel_download_flag_first(job_id) ==
    IF job_id \notin DOMAIN JOBS
    THEN /\ returned' = [tool |-> "cancel_download", value |-> NotFound(job_id)]
         /\ UNCHANGED <<JOBS, PROGRESS, TASKS, THREADS, CancelledErrorIsException>>
    ELSE IF AlreadyFinished(JOBS[job_id])
    THEN /\ JOBS' = [JOBS EXCEPT ![job_id].cancel_requested = TRUE]
         /\ returned' = [tool |-> "cancel_download", value |->
                            [status |-> "cannot_cancel",
                             reason |-> "job already " \o JOBS[job_id].status,
                             job_id |-> job_id]]
         /\ UNCHANGED <<PROGRESS, TASKS, THREADS, CancelledErrorIsException>>
    ELSE /\ JOBS' = [JOBS EXCEPT ![job_id].cancel_requested = TRUE,
                                 ![job_id].status = "cancel_requested"]
         /\ TASKS' = IF TaskPending(JOBS[job_id])
                     THEN [TASKS EXCEPT ![JOBS[job_id].task].must_cancel = TRUE]
                     ELSE TASKS
         /\ returned' = [tool |-> "cancel_download", value |->
                            [status |-> "cancellation_requested", job_id |-> job_id]]
         /\ UNCHANGED <<PROGRESS, THREADS, CancelledErrorIsException>>

cancel_download(job_id) ==
    IF job_id \notin DOMAIN JOBS
    THEN /\ returned' = [tool |-> "cancel_download", value |-> NotFound(job_id)]
         /\ UNCHANGED <<JOBS, PROGRESS, TASKS, THREADS, CancelledErrorIsException>>
    ELSE IF AlreadyFinished(JOBS[job_id])
    THEN /\ returned' = [tool |-> "cancel_download", value |->
                            [status |-> "cannot_cancel",
                             reason |-> "job already " \o JOBS[job_id].status,
                             job_id |-> job_id]]
         /\ UNCHANGED <<JOBS, PROGRESS, TASKS, THREADS, CancelledErrorIsException>>
    ELSE /\ JOBS' = [JOBS EXCEPT ![job_id].cancel_requested = TRUE,
                                 ![job_id].status = "cancel_requested"]
         /\ TASKS' = IF TaskPending(JOBS[job_id])
                     THEN [TASKS EXCEPT ![JOBS[job_id].task].must_cancel = TRUE]
                     ELSE TASKS
         /\ returned' = [tool |-> "cancel_download", value |->
                            [status |-> "cancellation_requested", job_id |-> job_id]]
         /\ UNCHANGED <<PROGRESS, THREADS, CancelledErrorIsException>>

\* ------------------------------------------------------------ specification

Next ==
    \/ \E r \in VIDEO_REQUESTS : download_video(r.url, r.download_path)
    \/ \E r \in PLAYLIST_REQUESTS : download_playlist(r.url, r.download_path)
    \/ \E j \in JOB_IDS : get_download_status(j)
    \/ \E j \in JOB_IDS : cancel_download(j)
    \/ list_downloads
    \/ \E j \in JOB_IDS : run_start(j)
    \/ \E j \in JOB_IDS : run_never_started(j)
    \/ \E j \in JOB_IDS : run_resume(j)
    \/ \E j \in JOB_IDS, d \in SAMPLES : progress_hook(j, d)
    \/ \E j \in JOB_IDS : blocking_returns(j)
    \/ \E j \in JOB_IDS, msg \in FETCH_ERRORS : blocking_raises(j, msg)

Spec == Init /\ [][Next]_vars

\* One job, submitted to a directory that can be created, with every sample
\* of HOOK_SAMPLES: the execution of _run_yt_dlp_job and of progress_hook
\* for that job, and the cancel requests on it.
HookNext ==
    \/ DOMAIN JOBS = {} /\ download_video(SAMPLE_URL, DOWNLOADS)
    \/ DOMAIN JOBS = {} /\ download_playlist(SAMPLE_URL, DOWNLOADS)
    \/ cancel_download(1)
    \/ run_start(1)
    \/ run_never_started(1)
    \/ run_resume(1)
    \/ \E d \in HOOK_SAMPLES : progress_hook(1, d)
    \/ blocking_returns(1)
    \/ \E msg \in FETCH_ERRORS : blocking_raises(1, msg)

HookSpec == Init /\ [][HookNext]_vars

\* ------------------------------------------------------------------ claims

\* The terminal states of the job lifecycle.
Terminal == {"completed", "error", "cancelled"}

\* The call that submitted job j returned its job_id: the job has a task.
Submitted(j) == JOBS[j].task # NoneInt

\* The task of job j will run no more statements: it was never created, or
\* its coroutine has ended.
TaskOver(j) == ~Submitted(j) \/ TASKS[JOBS[j].task].pc = "done"

\* The task of job j was cancelled before it ran its first statement.
NeverStarted(j) ==
    /\ Submitted(j)
    /\ j \notin DOMAIN THREADS
    /\ TASKS[JOBS[j].task].exception = CancelledError

\* Neither the task of job j nor its executor thread will take another step.
ExecutionOver(j) ==
    TaskOver(j) /\ (j \in DOMAIN THREADS => THREADS[j].state # "running")

\* cancel_download returned the accepted result for job j.
Accepted(j) == [tool |-> "cancel_download",
                value |-> [status |-> "cancellation_requested", job_id |-> j]]

\* C1: a submitted job on which cancel_download was accepted ends in completed, error
\* or cancelled.  Stated on the final result: when the job's task has ended,
\* after which only cancel_download writes the status, and never a terminal
\* one, a job with cancel_requested set is in a terminal state.
C1_CancellationResolves ==
    \A j \in DOMAIN JOBS :
        Submitted(j) /\ JOBS[j].cancel_requested /\ TaskOver(j)
            => JOBS[j].status \in Terminal

\* The edges of the job lifecycle as the claim C2 lists them.
LifecycleEdges ==
    {<<"pending", "downloading">>,
     <<"downloading", "completed">>, <<"downloading", "error">>,
     <<"downloading", "cancelled">>, <<"downloading", "cancel_requested">>,
     <<"cancel_requested", "cancelled">>, <<"cancel_requested", "completed">>,
     <<"cancel_requested", "error">>}

\* Every step keeps each job's status or moves it along one of the edges,
\* and a job that appears in JOBS appears as pending.
FollowsEdges(edges) ==
    /\ \A j \in DOMAIN JOBS :
          /\ j \in DOMAIN JOBS'
          /\ JOBS'[j].status # JOBS[j].status
                => <<JOBS[j].status, JOBS'[j].status>> \in edges
    /\ \A j \in DOMAIN JOBS' \ DOMAIN JOBS : JOBS'[j].status = "pending"

\* C2 as stated: the status of every job starts at pending and changes only
\* along pending->downloading, downloading->completed|error|cancelled|
\* cancel_requested and cancel_requested->cancelled|completed|error.
C2_OnlyListedEdges == [][FollowsEdges(LifecycleEdges)]_vars

\* C2 as amended: the status of every job starts at pending and changes only
\* along the listed edges or along pending->cancel_requested, the edge
\* cancel_download takes on a job whose task has not started.
C2_EdgesWithPendingCancel ==
    [][FollowsEdges(LifecycleEdges \cup {<<"pending", "cancel_requested">>})]_vars

\* C2's case: a job that went from pending to cancel_requested (no executor
\* thread was ever started for it) while another job ran to completion.
C2_Witness ==
    \E j, k \in DOMAIN JOBS :
        /\ JOBS[j].status = "cancel_requested" /\ j \notin DOMAIN THREADS
        /\ JOBS[k].status = "completed"

\* C3: once the status of a job is completed, error or cancelled, no step
\* changes it.
C3_TerminalAbsorbing ==
    [][\A j \in DOMAIN JOBS :
          JOBS[j].status \in Terminal
              => j \in DOMAIN JOBS' /\ JOBS'[j].status = JOBS[j].status]_vars

\* C3's case: cancel_download has just been called on a job in a terminal
\* state, after another job was submitted.
C3_Witness ==
    \E j \in DOMAIN JOBS :
        /\ JOBS[j].status \in Terminal
        /\ returned.tool = "cancel_download"
        /\ returned.value.job_id = j
        /\ Cardinality(DOMAIN JOBS) > j

\* C4: a submitted job cancelled before the first progress callback, whose
\* fetch was aborted by the first callback that saw the flag or was never
\* begun because the task was cancelled first, ends with status cancelled
\* and a non-empty error_message.  Stated on the final result, when the task
\* and the thread have ended.
C4_EarlyCancelEndsCancelled ==
    \A j \in DOMAIN JOBS :
        (/\ Submitted(j)
         /\ JOBS[j].cancel_requested
         /\ ExecutionOver(j)
         /\ \/ NeverStarted(j)
            \/ /\ j \in DOMAIN THREADS
               /\ ~THREADS[j].callbacks
               /\ THREADS[j].state = "raised"
               /\ THREADS[j].exc.msg = "Cancelled by user")
        => (/\ JOBS[j].status = "cancelled"
            /\ JOBS[j].error_message \notin {None, ""})

\* C5: a job whose submission returned a job_id and on which cancel is never
\* requested ends in completed, error or cancelled.  Stated on the final
\* result: when its task has ended, the job is in a terminal state.
C5_UncancelledJobTerminates ==
    \A j \in DOMAIN JOBS :
        (/\ Submitted(j)
         /\ ~JOBS[j].cancel_requested
         /\ TaskOver(j))
        => JOBS[j].status \in Terminal

\* C6: cancel_download on a job that is not in a terminal state returns the
\* accepted result; on a job on which an earlier call was accepted (its
\* cancel_requested is set, which only an accepted call does) it returns
\* accepted again, or cannot_cancel when the job has reached a terminal
\* state; it never returns an error or raises, and cancel_requested is set
\* after the call.
C6_CancelIdempotent ==
    [][\A j \in DOMAIN JOBS :
          cancel_download(j) =>
              /\ JOBS[j].status \notin Terminal
                    => returned' = Accepted(j) /\ JOBS'[j].cancel_requested
              /\ JOBS[j].cancel_requested
                    => /\ returned'.tool = "cancel_download"
                       /\ DOMAIN returned' = {"tool", "value"}
                       /\ "error" \notin DOMAIN returned'.value
                       /\ returned'.value.job_id = j
                       /\ returned'.value.status \in
                              IF JOBS[j].status \in Terminal
                              THEN {"cannot_cancel"} ELSE {"cancellation_requested"}
                       /\ JOBS'[j].cancel_requested]_vars

\* C6's case: the second call of cancel_download on a job returned
\* cannot_cancel: the first was accepted and the job finished in between.
C6_Witness ==
    \E j \in DOMAIN JOBS :
        /\ JOBS[j].cancel_requested
        /\ returned.tool = "cancel_download"
        /\ returned.value.job_id = j
        /\ returned.value.status = "cannot_cancel"

\* C7: cancel_download on a job in a terminal state returns cannot_cancel
\* and changes no field of the job, its progress included.
C7_CancelTerminalNoOp ==
    [][\A j \in DOMAIN JOBS :
          JOBS[j].status \in Terminal /\ cancel_download(j) =>
              /\ returned'.value.status = "cannot_cancel"
              /\ returned'.value.job_id = j
              /\ JOBS'[j] = JOBS[j]
              /\ PROGRESS'[JOBS[j].progress] = PROGRESS[JOBS[j].progress]]_vars

\* C7's case: cancel_download returned cannot_cancel for a job that
\* completed with its progress updated by the hook.
C7_Witness ==
    \E j \in DOMAIN JOBS :
        /\ JOBS[j].status = "completed"
        /\ PROGRESS[JOBS[j].progress] # NewProgress
        /\ returned.tool = "cancel_download"
        /\ returned.value.job_id = j
        /\ returned.value.status = "cannot_cancel"

\* C8: for a job id that is not in JOBS, get_download_status and
\* cancel_download return the not-found result and change neither the set
\* of jobs nor any job, progress dict or task.
C8_UnknownIdNotFound ==
    [][\A j \in JOB_IDS \ DOMAIN JOBS :
          get_download_status(j) \/ cancel_download(j) =>
              /\ DOMAIN returned' = {"tool", "value"}
              /\ returned'.value = [error |-> "job_id not found", job_id |-> j]
              /\ UNCHANGED <<JOBS, PROGRESS, TASKS, THREADS>>]_vars

\* C8's case: cancel_download returned not-found for an id that is not in
\* JOBS, while JOBS holds a job that is downloading.
C8_Witness ==
    /\ returned.tool = "cancel_download"
    /\ "error" \in DOMAIN returned.value
    /\ returned.value.job_id \notin DOMAIN JOBS
    /\ \E k \in DOMAIN JOBS : JOBS[k].status = "downloading"

\* A request the submit operation has to reject: the URL is empty, or the
\* directory of the output template cannot be created.
InvalidRequest(url, download_path, template) ==
    \/ url = ""
    \/ ~MakedirsOK(Dirname(Join(download_path, template)))

\* C9: download_video and download_playlist reject an invalid request
\* without adding a job to JOBS.
C9_SubmitValidatesFirst ==
    [][/\ \A r \in VIDEO_REQUESTS :
             /\ InvalidRequest(r.url, r.download_path, VIDEO_TEMPLATE)
             /\ download_video(r.url, r.download_path)
             => "raised" \in DOMAIN returned' /\ JOBS' = JOBS
       /\ \A r \in PLAYLIST_REQUESTS :
             /\ InvalidRequest(r.url, r.download_path, PLAYLIST_TEMPLATE)
             /\ download_playlist(r.url, r.download_path)
             => "raised" \in DOMAIN returned' /\ JOBS' = JOBS]_vars

\* What a caller reads through a copy of a job: the copy's own values and
\* the content of the progress dict it refers to.
Visible(copy) == [copy EXCEPT !.progress = PROGRESS[copy.progress]]

\* What the caller of the last tool call reads through the snapshots it
\* was given.
VisibleSnapshots ==
    IF returned.tool = "get_download_status" /\ "status" \in DOMAIN returned.value
    THEN <<Visible(returned.value)>>
    ELSE IF returned.tool = "list_downloads"
    THEN [i \in DOMAIN returned.value |-> Visible(returned.value[i])]
    ELSE <<>>

\* C10: while a caller holds the snapshots get_download_status or
\* list_downloads returned, no step changes a value read through them.
C10_SnapshotImmutable ==
    [][returned' = returned => VisibleSnapshots' = VisibleSnapshots]_vars

\* The content of the progress dict of job j.
ProgressOf(j) == PROGRESS[JOBS[j].progress]

\* Job j has reached downloading: its task has run up to the await.
ReachedDownloading(j) == j \in DOMAIN THREADS

\* C11: for a job that has reached downloading and has no terminal status
\* yet, no step lowers progress.percent.
C11_PercentNeverDecreases ==
    [][\A j \in DOMAIN JOBS :
          ReachedDownloading(j) /\ JOBS[j].status \notin Terminal
              => ProgressOf(j).percent' >= ProgressOf(j).percent]_vars

\* C12: in every state and for every job, progress.percent is between 0.0
\* and 100.0 and progress.downloaded_bytes is a non-negative integer.
C12_ProgressInRange ==
    \A j \in DOMAIN JOBS :
        /\ ProgressOf(j).percent >= 0
        /\ ProgressOf(j).percent <= 10000
        /\ ProgressOf(j).downloaded_bytes \in Nat

\* Job j was not cancelled and its task is at the await.
Uncancelled(j) ==
    /\ j \in DOMAIN THREADS
    /\ ~JOBS[j].cancel_requested
    /\ JOBS[j].status = "downloading"

\* C13: without a cancel request, a 'finished' sample sets percent to 100.0
\* whatever the byte counts before it, the return of the fetch and all that
\* follows leave the progress as it is, and the task then records completed
\* with an output_path.
C13_FinishedThenCompleted ==
    [][\A j \in DOMAIN JOBS :
          /\ progress_hook(j, [status |-> "finished"])
                => ProgressOf(j).percent' = 10000
          /\ j \in DOMAIN THREADS' /\ THREADS'[j].state = "returned"
                => ProgressOf(j)' = ProgressOf(j)
          /\ Uncancelled(j) /\ THREADS[j].state = "returned" /\ JOBS'[j] # JOBS[j]
                => \/ JOBS'[j].status = "completed" /\ JOBS'[j].output_path # None
                   \/ JOBS'[j].cancel_requested]_vars

\* A job completed without a cancel request, at 100.0 percent.
C13_Witness ==
    \E j \in DOMAIN JOBS :
        /\ JOBS[j].status = "completed"
        /\ ~JOBS[j].cancel_requested
        /\ JOBS[j].output_path # None
        /\ ProgressOf(j).percent = 10000
        /\ ProgressOf(j).total_bytes > 0
        /\ ProgressOf(j).downloaded_bytes > ProgressOf(j).total_bytes

\* The fetch of job j has raised a failure; its message is THREADS[j].exc.msg.
FetchFailed(j) == THREADS[j].state = "raised"

\* C14 as stated: when the fetch of a job that was not cancelled raises a
\* failure with message M, the task records error with error_message = M.
C14_ErrorMessageIsM ==
    [][\A j \in DOMAIN JOBS :
          Uncancelled(j) /\ FetchFailed(j) /\ JOBS'[j] # JOBS[j]
              => \/ /\ JOBS'[j].status = "error"
                    /\ JOBS'[j].error_message = THREADS[j].exc.msg
                 \/ JOBS'[j].cancel_requested]_vars

\* C14: when the fetch of a job that was not cancelled raises a failure with
\* message M, the task records error, and error_message is the type name of
\* the failure, a colon and a space, and M.
C14_ErrorMessageIsTypeAndM ==
    [][\A j \in DOMAIN JOBS :
          Uncancelled(j) /\ FetchFailed(j) /\ JOBS'[j] # JOBS[j]
              => \/ /\ JOBS'[j].status = "error"
                    /\ JOBS'[j].error_message =
                          THREADS[j].exc.type \o ": " \o THREADS[j].exc.msg
                 \/ JOBS'[j].cancel_requested]_vars

\* A job in error that was never cancelled, after its fetch raised M.
C14_Witness ==
    \E j \in DOMAIN JOBS \cap DOMAIN THREADS :
        /\ JOBS[j].status = "error"
        /\ ~JOBS[j].cancel_requested
        /\ THREADS[j].exc.msg \in FETCH_ERRORS

\* A progress callback, a cancel request or a step of the task of job j
\* changes no field of any other job, the content of its progress included.
C15_Isolation ==
    [][\A j, k \in DOMAIN JOBS :
          (/\ j # k
           /\ \/ \E d \in SAMPLES : progress_hook(j, d)
              \/ cancel_download(j)
              \/ run_resume(j))
          => JOBS'[k] = JOBS[k] /\ ProgressOf(k)' = ProgressOf(k)]_vars

\* The terminal state that the outcome of job j's own fetch and its own
\* cancel flag determine.
OwnOutcome(j) ==
    IF JOBS[j].cancel_requested THEN "cancelled"
    ELSE IF THREADS[j].state = "returned" THEN "completed"
    ELSE "error"

\* A job in a terminal state is in the one its own outcome determines.
C15_OwnTerminalState ==
    \A j \in DOMAIN JOBS \cap DOMAIN THREADS :
        JOBS[j].status \in Terminal => JOBS[j].status = OwnOutcome(j)

\* C15: with two jobs running, a progress callback, a cancel request or a
\* terminal write of one job changes no field of the other, and each job
\* reaches the terminal state its own fetch outcome determines: when the
\* tasks of both have ended, each is in that state.
C15_JobsIndependent ==
    [][/\ \A j, k \in DOMAIN JOBS :
             (/\ j # k
              /\ \/ \E d \in SAMPLES : progress_hook(j, d)
                 \/ cancel_download(j)
                 \/ run_resume(j))
             => JOBS'[k] = JOBS[k] /\ ProgressOf(k)' = ProgressOf(k)
       /\ \A j, k \in DOMAIN THREADS' :
             j # k /\ TaskOver(j)' /\ TaskOver(k)'
                 => JOBS'[j].status = OwnOutcome(j)']_vars

\* C16: when the task classifies a failure (it writes error or cancelled)
\* with cancel_requested set, it writes cancelled and a non-empty
\* error_message; it writes error only with cancel_requested not set.
C16_CancelledTakesPrecedence ==
    [][\A j \in DOMAIN JOBS :
          JOBS[j].status \notin Terminal /\ JOBS'[j].status \in {"error", "cancelled"}
              => /\ JOBS[j].cancel_requested
                       => /\ JOBS'[j].status = "cancelled"
                          /\ JOBS'[j].error_message \notin {None, ""}
                 /\ JOBS'[j].status = "error" => ~JOBS[j].cancel_requested]_vars

\* C16's case: the fetch raised a failure of its own, a cancel was accepted
\* before the task classified it, and the job is cancelled.
C16_Witness ==
    \E j \in DOMAIN JOBS \cap DOMAIN THREADS :
        /\ JOBS[j].status = "cancelled"
        /\ THREADS[j].state = "raised"
        /\ THREADS[j].exc.msg \in FETCH_ERRORS

\* C17: a job with status cancelled has cancel_requested set, and no step
\* resets cancel_requested once it is set.  Stated on the steps: the state
\* after each has the flag on every cancelled job and on every job that had
\* it before (no job exists initially).
C17_CancelledImpliesFlag ==
    [][\A j \in DOMAIN JOBS' :
          /\ JOBS'[j].status = "cancelled" => JOBS'[j].cancel_requested
          /\ j \in DOMAIN JOBS /\ JOBS[j].cancel_requested
                => JOBS'[j].cancel_requested]_vars

\* C17's case: a job is cancelled while its executor thread is still
\* running and another job, never cancelled, has ended in error.
C17_Witness ==
    \E j, k \in DOMAIN JOBS \cap DOMAIN THREADS :
        /\ JOBS[j].status = "cancelled"
        /\ THREADS[j].state = "running"
        /\ JOBS[k].status = "error"
        /\ ~JOBS[k].cancel_requested

\* C18: a call of progress_hook raises exactly when cancel_requested is set
\* at the call, for every sample, those with missing byte counts and with an
\* unknown status included; what it raises is 'Cancelled by user'.
C18_HookRaisesIffCancelRequested ==
    [][\A j \in DOMAIN JOBS : \A d \in HOOK_SAMPLES :
          progress_hook(j, d)
              => /\ THREADS'[j].state = "raised" <=> JOBS[j].cancel_requested
                 /\ THREADS'[j].state = "raised"
                       => THREADS'[j].exc.msg = "Cancelled by user"
                 /\ THREADS'[j].state # "raised" => THREADS'[j].state = "running"]_vars

\* C18's case: cancel_download was accepted while the fetch was running, and
\* the next call of the hook raised.
C18_Witness ==
    \E j \in DOMAIN JOBS \cap DOMAIN THREADS :
        /\ JOBS[j].cancel_requested
        /\ THREADS[j].callbacks
        /\ THREADS[j].state = "raised"
        /\ THREADS[j].exc.msg = "Cancelled by user"

\* C19: error_message is not None only for a job in error or cancelled.
C19_ErrorMessageOnlyWhenFailed ==
    \A j \in DOMAIN JOBS :
        JOBS[j].error_message # None => JOBS[j].status \in {"error", "cancelled"}

\* C19's case: one job has completed after its cancel was accepted, with no
\* error_message, and another has failed with one.
C19_Witness ==
    \E j, k \in DOMAIN JOBS :
        /\ JOBS[j].status = "completed"
        /\ JOBS[j].error_message = None
        /\ JOBS[k].status = "error"
        /\ JOBS[k].error_message # None

\* C20: every job in JOBS has a task.
C20_EveryJobHasTask ==
    \A j \in DOMAIN JOBS : JOBS[j].task # NoneInt /\ JOBS[j].task \in DOMAIN TASKS

====
